---- MODULE Spec2Model ----
(***************************************************************************)
(* SecureShare: the download-authorization path.                           *)
(*                                                                         *)
(* The edge function download-file (supabase/functions/download-file/      *)
(* index.ts) serves one request in four round trips: the lookup RPC        *)
(* get_share_link_by_token, a local validity check, the consume RPC        *)
(* log_download, and the creation of a signed URL.  log_download is a      *)
(* plpgsql function: it runs in one transaction under PostgreSQL's         *)
(* default READ COMMITTED isolation, so each of its statements reads the   *)
(* rows committed when that statement starts, its own writes stay          *)
(* invisible to others until commit, an UPDATE takes the row lock until    *)
(* the transaction ends, and RAISE EXCEPTION aborts the transaction and    *)
(* discards everything it wrote.                                           *)
(*                                                                         *)
(* The UPDATE of log_download is its last statement, so the row lock it    *)
(* takes is released by the commit that follows it: a second UPDATE of the *)
(* same row waits for that commit and then works on the committed row.     *)
(* UPDATE and commit are therefore one step here.                          *)
(*                                                                         *)
(* The owner's side is the creation of a share link at the end of an       *)
(* upload (src/components/FileUpload.tsx) and the updates of a link that   *)
(* the policy "Users can update share links for their files" admits.       *)
(* The upload itself (handleRealUpload: the checks of the file, then the   *)
(* writes of the storage object, the files row and the share link) and the *)
(* deletion of a file from the dashboard (src/pages/Dashboard.tsx), with   *)
(* the cascades of the foreign keys, are followed step by step.            *)
(*                                                                         *)
(* Time is counted in minutes.                                             *)
(***************************************************************************)
EXTENDS Integers, Sequences, FiniteSets, TLC

\* ---------------------------------------------------------------- bounds
NumWorkers == 2          \* requests served at the same time
MaxRequests == 2         \* requests started in one behaviour
MaxTicks == 2            \* clock advances in one behaviour

\* ------------------------------------------------------ program constants
IpLimit == 20            \* recent_attempts >= 20
TokenFailLimit == 10     \* recent_failures >= 10
Hour == 60               \* interval '1 hour', in minutes
SignedUrlTtl == 3600     \* createSignedUrl(storage_path, 3600)

NULL == -1               \* SQL NULL of a nullable integer / timestamp column

MaxDirectCalls == 1      \* calls of log_download(link_token, user_agent_text)
MaxUploads == 2          \* calls of handleRealUpload in one behaviour

LinkTokens == {"t1"}     \* tokens of the rows of share_links
OldToken == "t0"         \* the token of a link made and used up long ago
UnknownToken == "tx"     \* a token no share_links row holds
EmptyToken == ""         \* a request body without token
Ips == {"ip1", "ip2"}

\* the messages of the code
MsgTokenRequired == "Token is required"
MsgInvalidOrExpiredLink == "Invalid or expired link"
MsgNoLongerValid == "Link is no longer valid"
MsgIpRate == "Rate limit exceeded. Too many download attempts from this IP address."
MsgTokenRate == "Too many failed attempts for this link. Please try again later."
MsgInvalidShareLink == "Invalid or expired share link"
MsgStoreError == "store error"
MsgUrlFailed == "Failed to generate download URL"
MsgOk == "signedUrl"

\* the error texts that come from the store: those log_download raises, and
\* the one of a failure of the store itself
RaisedMessages == {MsgIpRate, MsgTokenRate, MsgInvalidShareLink, MsgStoreError}

VARIABLES
  now,                \* the clock, minutes
  ticks,              \* clock advances so far
  share_links,        \* token -> committed row of share_links
  download_attempts,  \* committed rows of download_attempts, in commit order
  download_logs,      \* committed rows of download_logs, in commit order
  requests,           \* request id -> the request, its handler's position and
                      \* locals, and its answer
  clients,            \* the addresses requests come from
  past,               \* the requests served before the first of `requests'
  files,              \* file id -> committed row of files
  objects,            \* the paths of the objects of the bucket secure-files
  upload,             \* the state of the FileUpload component, and the
                      \* position and locals of its handleRealUpload
  page                \* the state of a download page, and the position of
                      \* its handleDownload

vars == <<now, ticks, share_links, download_attempts, download_logs,
          requests, clients, past, files, objects, upload, page>>

\* ------------------------------------------------------------- SQL helpers

\* the WHERE clause without its test of expires_at
UsableNoExpiry(l, t) ==
  /\ l.is_active
  /\ (l.max_downloads = NULL \/ l.current_downloads < l.max_downloads)

\* the WHERE clause without its test of max_downloads
UsableNoLimit(l, t) ==
  /\ l.is_active
  /\ (l.expires_at = NULL \/ l.expires_at > t)

\* WHERE is_active = true AND (expires_at IS NULL OR expires_at > now())
\*   AND (max_downloads IS NULL OR current_downloads < max_downloads)
Usable(l, t) ==
  /\ l.is_active
  /\ (l.expires_at = NULL \/ l.expires_at > t)
  /\ (l.max_downloads = NULL \/ l.current_downloads < l.max_downloads)

\* the columns of share_links that get_share_link_by_token returns, beside
\* the token (RETURNS TABLE; password_hash is not among them)
ReturnedColumns == {"expires_at", "max_downloads", "current_downloads", "is_active"}

\* the rows get_share_link_by_token returns at time t: WHERE sl.token =
\* link_token AND ... LIMIT 1.  The token is unique, so the rows that match
\* are the row stored under it, if any, joined with the row of its file.
get_share_link_by_token(link_token, t) ==
  IF /\ link_token \in DOMAIN share_links
     /\ Usable(share_links[link_token], t)
     /\ share_links[link_token].file_id \in DOMAIN files
  THEN << [token |-> link_token,
           storage_path |-> files[share_links[link_token].file_id].storage_path]
            @@ [c \in ReturnedColumns |-> share_links[link_token][c]] >>
  ELSE << >>

\* SELECT COUNT(*) FROM download_attempts WHERE ip_address = ip_addr
\*   AND attempted_at > now() - interval '1 hour'
RecentAttempts(ip_addr, t) ==
  Cardinality({i \in DOMAIN download_attempts :
                 /\ download_attempts[i].ip_address = ip_addr
                 /\ download_attempts[i].attempted_at > t - Hour})

\* SELECT COUNT(*) FROM download_attempts WHERE token = link_token
\*   AND success = false AND attempted_at > now() - interval '1 hour'
RecentFailures(link_token, t) ==
  Cardinality({i \in DOMAIN download_attempts :
                 /\ download_attempts[i].token = link_token
                 /\ download_attempts[i].success = FALSE
                 /\ download_attempts[i].attempted_at > t - Hour})

\* SELECT id INTO link_id FROM share_links WHERE token = link_token AND ...
SelectLinkId(link_token, t) ==
  IF link_token \in DOMAIN share_links /\ Usable(share_links[link_token], t)
  THEN link_token ELSE "NULL"

\* an update that sets the counter instead of adding to it
RestartDownloads(links, link_id) ==
  [links EXCEPT ![link_id].current_downloads = 1]

\* UPDATE share_links SET current_downloads = current_downloads + 1
\*   WHERE id = link_id
IncrementDownloads(links, link_id) ==
  [links EXCEPT ![link_id].current_downloads = @ + 1]

\* an abort that leaves the rows written so far in the table
RollbackKeeps(rows) == rows

\* the rows of an aborted transaction that reach the table: none
Rollback(rows) == << >>

\* a rate limit that records the attempt it rejects
RateLimitedRecorded(rows, ip_addr, link_token, t, r) ==
  Append(rows, [ip_address |-> ip_addr, token |-> link_token,
                attempted_at |-> t, success |-> FALSE, by |-> r])

\* IF recent_... >= limit THEN RAISE EXCEPTION: no statement before it wrote
\* anything, so download_attempts is left as it was
RateLimited(rows, ip_addr, link_token, t, r) == rows

\* ------------------------------------------- row-level security, share_links

PolicyOwnerView == "Users can view share links for their files"
PolicyPublicView == "Public can view active share links"
PolicyExactToken == "Public can view share link by exact token match"

\* The statements of the migrations that create or drop a policy FOR SELECT on
\* share_links, in the order they run: the initial schema creates the table
\* and its policies, and the migration that introduces get_share_link_by_token
\* comes after it, since it drops one of them and reads the table.
PolicyStatements ==
  << [op |-> "create", name |-> PolicyOwnerView],
     [op |-> "create", name |-> PolicyPublicView],
     [op |-> "drop", name |-> PolicyPublicView],
     [op |-> "create", name |-> PolicyExactToken],
     [op |-> "drop", name |-> PolicyExactToken] >>

CreatePolicy(policies, name) == policies \cup {name}

\* a DROP POLICY that leaves the policy in place
DropPolicyKept(policies, name) == policies

\* DROP POLICY IF EXISTS name ON share_links
DropPolicy(policies, name) == policies \ {name}

\* the policies in force after the first n statements
RECURSIVE PoliciesAfter(_)
PoliciesAfter(n) ==
  IF n = 0 THEN {}
  ELSE LET st == PolicyStatements[n]
       IN IF st.op = "create" THEN CreatePolicy(PoliciesAfter(n - 1), st.name)
          ELSE DropPolicy(PoliciesAfter(n - 1), st.name)

\* the USING clause of a policy, for a caller and a row at time t.  The callers
\* of the database API are the owner of the files, signed in, and anybody else
\* ("anon": auth.uid() is NULL and the JWT carries no share_token).
Permits(policy, caller, link_token, t) ==
  CASE policy = PolicyOwnerView -> caller = "owner"
    [] policy = PolicyPublicView -> Usable(share_links[link_token], t)
    [] policy = PolicyExactToken -> FALSE
    [] OTHER -> FALSE

\* SELECT * FROM share_links, as a caller at time t, once all migrations have
\* run: row-level security is enabled, so a row is returned when some policy
\* permits it.  Any WHERE clause of the caller selects among these rows.
SelectShareLinks(caller, t) ==
  {link_token \in DOMAIN share_links :
     \E policy \in PoliciesAfter(Len(PolicyStatements)) :
        Permits(policy, caller, link_token, t)}

\* tokens a caller may try: those of the model and two near misses of "t1"
ProbeTokens == LinkTokens \cup {OldToken, UnknownToken, EmptyToken, "T1", "t"}

\* --------------------------------------------------------- handler helpers

NoLink == [token |-> "NULL", max_downloads |-> NULL, current_downloads |-> 0,
           is_active |-> FALSE, expires_at |-> NULL, storage_path |-> NULL]

\* the locals of a handler that is not running
Idle == [pc |-> "done", shareLink |-> NoLink, txnNow |-> 0,
         link_id |-> "NULL", pendAttempts |-> << >>, pendLogs |-> << >>]

TxPcs == {"tx_ip", "tx_token", "tx_select", "tx_update"}

InFlight == {r \in DOMAIN requests : requests[r].pc # "done"}

\* a request as received, before any answer
NewRequest(token, ip, t, overIp, overTok, expired, protected) ==
  [token |-> token, ip |-> ip, at |-> t, status |-> 0, body |-> "", kind |-> "",
   urls |-> 0, ttl |-> 0, consumed |-> 0, firstRead |-> "", linkRead |-> FALSE,
   overIp |-> overIp, overTok |-> overTok, expiredAtStart |-> expired,
   protectedAtStart |-> protected, why |-> {}, signCalls |-> << >>] @@ Idle

\* why the link stored under a token is not usable at time t, as the committed
\* row tells: any of inactive, expired, exhausted; or unknown when no row is
\* stored under the token
Unusable(link_token, t) ==
  IF link_token \notin DOMAIN share_links THEN {"unknown"}
  ELSE LET l == share_links[link_token]
       IN (IF l.is_active THEN {} ELSE {"inactive"})
          \cup (IF l.expires_at # NULL /\ l.expires_at <= t THEN {"expired"} ELSE {})
          \cup (IF l.max_downloads # NULL /\ l.current_downloads >= l.max_downloads
                THEN {"exhausted"} ELSE {})

\* request r is turned away because of the state of its link
TurnedAway(reqs, r, t) == [reqs EXCEPT ![r].why = Unusable(reqs[r].token, t)]

\* The requests served before the first of `requests', all at minute 0:
\* past.downloads downloads of the link "t1" from "ip1", each answered 200, and
\* past.unknowns requests for the unknown token from "ip2", each answered 404.
PastAttempts(ip) ==
  IF ip = "ip1" THEN past.downloads
  ELSE IF ip = "ip2" THEN past.unknowns ELSE 0

PastFailures(token) == IF token = UnknownToken THEN past.unknowns ELSE 0

\* the attempts an IP has made in the trailing hour: answered requests that
\* reached a verdict on the link (consumed it, or found it invalid or unusable)
AttemptsMade(ip, t) ==
  Cardinality({i \in DOMAIN requests :
                 /\ requests[i].ip = ip
                 /\ requests[i].kind \in {"ok", "invalid"}
                 /\ requests[i].at > t - Hour})
  + (IF 0 > t - Hour THEN PastAttempts(ip) ELSE 0)

\* the failed attempts made against a token in the trailing hour
FailuresMade(token, t) ==
  Cardinality({i \in DOMAIN requests :
                 /\ requests[i].token = token
                 /\ requests[i].kind = "invalid"
                 /\ requests[i].at > t - Hour})
  + (IF 0 > t - Hour THEN PastFailures(token) ELSE 0)

\* the addresses a new request may come from: one seen before, or the next
\* unseen one (addresses are interchangeable)
IpChoices ==
  LET used == {requests[i].ip : i \in DOMAIN requests}
                \cup {ip \in Ips : PastAttempts(ip) > 0}
  IN (used \cap clients) \cup (IF clients \subseteq used THEN {}
                                ELSE {CHOOSE ip \in clients \ used : TRUE})

\* request r reads a table
Touch(reqs, r, table) ==
  [reqs EXCEPT ![r].firstRead = IF @ = "" THEN table ELSE @,
                   ![r].linkRead = @ \/ table = "share_links"]

\* return new Response(JSON.stringify(body), {status}): the handler ends
Answer(reqs, r, status, body, kind) ==
  [reqs EXCEPT ![r] = [f \in DOMAIN reqs[r] |->
       CASE f = "status" -> status
         [] f = "body" -> body
         [] f = "kind" -> kind
         [] f \in DOMAIN Idle -> Idle[f]
         [] OTHER -> reqs[r][f]]]

\* a handler that answers after the RPC without calling createSignedUrl
ToSignSkipped(reqs, r) == Answer(reqs, r, 200, MsgOk, "ok")

\* the handler moves on to createSignedUrl; the RPC's locals are gone
ToSign(reqs, r) ==
  [reqs EXCEPT ![r] = [f \in DOMAIN reqs[r] |->
       CASE f = "pc" -> "sign"
         [] f = "shareLink" -> reqs[r].shareLink
         [] f \in DOMAIN Idle -> Idle[f]
         [] OTHER -> reqs[r][f]]]

\* a handler that goes on to createSignedUrl although the RPC failed
OnLogErrorIgnored(reqs, r, message, kind) == ToSign(reqs, r)

\* if (logError) return 403 with logError.message
OnLogError(reqs, r, message, kind) == Answer(reqs, r, 403, message, kind)

\* a bucket that signs the URL of an object it does not hold
UrlErrorsWhatever(storage_path) == BOOLEAN

\* createSignedUrl(storage_path, 3600) may fail at any time, and fails when
\* the bucket holds no object under the path
UrlErrors(storage_path) ==
  IF storage_path \in objects THEN BOOLEAN ELSE {TRUE}

\* a handler that takes back the attempt of its request when no URL is made
OnUrlErrorUndone(attempts, r) == SelectSeq(attempts, LAMBDA row : row.by # r)

\* if (urlError) return 500: the handler writes nothing to the store, and what
\* log_download committed stays
OnUrlError(attempts, r) == attempts

\* a handler that tests the token after the lookup of the link
OnMissingTokenAfterLookup(reqs, r) ==
  Answer(Touch(reqs, r, "share_links"), r, 400, MsgTokenRequired, "badreq")

\* if (!token) return 400 {error: 'Token is required'}
OnMissingToken(reqs, r) == Answer(reqs, r, 400, MsgTokenRequired, "badreq")

\* ------------------------------------------------------------------ actions

\* POST /download-file {token}: const { token } = await req.json();
\* if (!token) return 400; supabaseAdmin.rpc('get_share_link_by_token');
\* 404 on error or no row
Received(token, ip, linkError) ==
  LET r == Len(requests) + 1
      expired == /\ token \in DOMAIN share_links
                 /\ share_links[token].expires_at # NULL
                 /\ share_links[token].expires_at <= now
      protected == /\ token \in DOMAIN share_links
                   /\ share_links[token].password_hash # NULL
      req == NewRequest(token, ip, now, AttemptsMade(ip, now) >= IpLimit,
                        FailuresMade(token, now) >= TokenFailLimit, expired,
                        protected)
      shareLinks == get_share_link_by_token(token, now)
      reqs == Touch(Append(requests, req), r, "share_links")
  IN IF token = EmptyToken
     THEN /\ ~linkError
          /\ requests' = OnMissingToken(Append(requests, req), r)
     ELSE IF linkError \/ Len(shareLinks) = 0
     THEN requests' = Answer(IF linkError THEN reqs
                             ELSE TurnedAway(reqs, r, now),
                             r, 404, MsgInvalidOrExpiredLink,
                             IF linkError THEN "infra" ELSE "invalid")
     ELSE requests' = [reqs EXCEPT ![r].pc = "validate",
                                   ![r].shareLink = shareLinks[1]]

\* a request arrives from any client
Begin ==
  /\ Cardinality(InFlight) < NumWorkers
  /\ Len(requests) < MaxRequests
  /\ \E token \in DOMAIN share_links \cup {UnknownToken, EmptyToken},
        ip \in IpChoices,
        linkError \in BOOLEAN : Received(token, ip, linkError)
  /\ UNCHANGED <<now, ticks, share_links, download_attempts, download_logs,
                 clients, past,
                 files, objects, upload, page>>

\* const now = new Date(); isExpired, limitReached; 403 if not valid
Validate(r) ==
  /\ requests[r].pc = "validate"
  /\ LET shareLink == requests[r].shareLink
         isExpired == IF shareLink.expires_at # NULL
                      THEN shareLink.expires_at < now ELSE FALSE
         limitReached == IF shareLink.max_downloads \notin {NULL, 0}
                         THEN shareLink.current_downloads >= shareLink.max_downloads
                         ELSE FALSE
     IN IF ~shareLink.is_active \/ isExpired \/ limitReached
        THEN requests' = Answer(TurnedAway(requests, r, now), r, 403,
                                MsgNoLongerValid, "invalid")
        ELSE requests' = [requests EXCEPT ![r].pc = "tx_ip"]
  /\ UNCHANGED <<now, ticks, share_links, download_attempts, download_logs,
                 clients, past,
                 files, objects, upload, page>>

\* log_download, first statement: the transaction starts (now() is fixed) and
\* the per-IP count is taken.  This is the moment the attempt is made: what the
\* address and the token have behind them is noted as of now.
CheckIpLimit(r) ==
  /\ requests[r].pc = "tx_ip"
  /\ LET recent_attempts == RecentAttempts(requests[r].ip, now)
         reqs == Touch([requests EXCEPT
                   ![r].at = now,
                   ![r].overIp = AttemptsMade(requests[r].ip, now) >= IpLimit,
                   ![r].overTok =
                      FailuresMade(requests[r].token, now) >= TokenFailLimit],
                 r, "download_attempts")
     IN IF recent_attempts >= IpLimit
        THEN /\ requests' = OnLogError([reqs EXCEPT ![r].why = {"ip_window"}], r,
                                       MsgIpRate, "ratelimited")
             /\ download_attempts' = RateLimited(download_attempts,
                    requests[r].ip, requests[r].token, now, r)
        ELSE /\ requests' = [reqs EXCEPT ![r].pc = "tx_token", ![r].txnNow = now]
             /\ download_attempts' = download_attempts
  /\ UNCHANGED <<now, ticks, share_links, download_logs, clients, past,
                 files, objects, upload, page>>

\* log_download, second statement: the per-token count of failures
CheckTokenLimit(r) ==
  /\ requests[r].pc = "tx_token"
  /\ LET recent_failures == RecentFailures(requests[r].token, requests[r].txnNow)
         reqs == Touch(requests, r, "download_attempts")
     IN IF recent_failures >= TokenFailLimit
        THEN /\ requests' = OnLogError([reqs EXCEPT ![r].why = {"token_window"}],
                                       r, MsgTokenRate, "ratelimited")
             /\ download_attempts' = RateLimited(download_attempts,
                    requests[r].ip, requests[r].token, requests[r].txnNow, r)
        ELSE /\ requests' = [reqs EXCEPT ![r].pc = "tx_select"]
             /\ download_attempts' = download_attempts
  /\ UNCHANGED <<now, ticks, share_links, download_logs, clients, past,
                 files, objects, upload, page>>

\* log_download, third statement: SELECT id INTO link_id.  When it is NULL the
\* failed attempt is inserted and the exception aborts the transaction; else
\* the successful attempt and the download log are inserted, uncommitted.
SelectLink(r) ==
  /\ requests[r].pc = "tx_select"
  /\ LET link_id == SelectLinkId(requests[r].token, requests[r].txnNow)
         reqs == Touch(requests, r, "share_links")
         attempt == [ip_address |-> requests[r].ip, token |-> requests[r].token,
                     attempted_at |-> requests[r].txnNow,
                     success |-> link_id # "NULL", by |-> r]
         log == [share_link_id |-> link_id, ip_address |-> requests[r].ip,
                 by |-> r]
     IN IF link_id = "NULL"
        THEN /\ download_attempts' = download_attempts \o Rollback(<<attempt>>)
             /\ requests' = OnLogError(TurnedAway(reqs, r, requests[r].txnNow), r,
                                       MsgInvalidShareLink, "invalid")
        ELSE /\ download_attempts' = download_attempts
             /\ requests' = [reqs EXCEPT ![r].pc = "tx_update",
                                         ![r].link_id = link_id,
                                         ![r].pendAttempts = <<attempt>>,
                                         ![r].pendLogs = <<log>>]
  /\ UNCHANGED <<now, ticks, share_links, download_logs, clients, past,
                 files, objects, upload, page>>

\* log_download: UPDATE share_links SET current_downloads = current_downloads + 1
\* WHERE id = link_id; RETURN log_id.  The update works on the latest committed
\* version of the row and the transaction commits.
Commit(r) ==
  /\ requests[r].pc = "tx_update"
  /\ download_attempts' = download_attempts \o requests[r].pendAttempts
  /\ download_logs' = download_logs \o requests[r].pendLogs
  /\ share_links' = IncrementDownloads(share_links, requests[r].link_id)
  /\ requests' = ToSign([requests EXCEPT ![r].consumed = @ + 1], r)
  /\ UNCHANGED <<now, ticks, clients, past,
                 files, objects, upload, page>>

\* the store fails, or the call is cancelled, while log_download runs: the
\* transaction is rolled back and the RPC returns an error
StoreFail(r) ==
  /\ requests[r].pc \in TxPcs
  /\ download_attempts' = download_attempts \o Rollback(requests[r].pendAttempts)
  /\ download_logs' = download_logs \o Rollback(requests[r].pendLogs)
  /\ requests' = OnLogError(requests, r, MsgStoreError, "infra")
  /\ UNCHANGED <<now, ticks, share_links, clients, past,
                 files, objects, upload, page>>

\* storage.from('secure-files').createSignedUrl(storage_path, 3600);
\* 500 on error, else 200 {signedUrl, filename}
Sign(r) ==
  /\ requests[r].pc = "sign"
  /\ \E urlError \in UrlErrors(requests[r].shareLink.storage_path) :
       LET reqs == [requests EXCEPT ![r].signCalls = Append(@, SignedUrlTtl)]
       IN IF urlError
          THEN /\ requests' = Answer(reqs, r, 500, MsgUrlFailed, "ok")
               /\ download_attempts' = OnUrlError(download_attempts, r)
          ELSE /\ requests' = Answer([reqs EXCEPT ![r].urls = @ + 1,
                                                  ![r].ttl = SignedUrlTtl],
                                     r, 200, MsgOk, "ok")
               /\ download_attempts' = download_attempts
  /\ UNCHANGED <<now, ticks, share_links, download_logs, clients, past,
                 files, objects, upload, page>>

\* time passes: a minute and an hour, in turn
Tick ==
  /\ ticks < MaxTicks
  /\ now' = now + (IF ticks % 2 = 0 THEN 1 ELSE Hour)
  /\ ticks' = ticks + 1
  /\ UNCHANGED <<share_links, download_attempts, download_logs,
                 requests, clients, past,
                 files, objects, upload, page>>

\* ---------------------------------------------------------- the owner's side

\* the choices of the upload form taken up here: an expiry of one hour, one
\* download or unlimited (NULL stands for 'never' and for 'unlimited')
ExpirationTimes == {1}
MaxDownloadChoices == {1, NULL}

\* handleRealUpload, its last step: supabase.from('share_links').insert({file_id,
\* token, expires_at, max_downloads, is_active: true}); the columns left out
\* take their defaults (current_downloads 0, password_hash NULL).  A token
\* that is taken violates the unique constraint and nothing is inserted.  The
\* file is one whose row handleRealUpload has just inserted.
CreateLink ==
  \E shareToken \in LinkTokens, expirationTime \in ExpirationTimes,
     maxDownloads \in MaxDownloadChoices, fileData \in DOMAIN files :
    LET expiresAt == IF expirationTime # NULL
                     THEN now + expirationTime * Hour ELSE NULL
    IN /\ shareToken \notin DOMAIN share_links
       /\ \A t \in DOMAIN share_links : share_links[t].file_id # fileData
       /\ share_links' = share_links @@
            (shareToken :> [max_downloads |-> maxDownloads, current_downloads |-> 0,
                            is_active |-> TRUE, expires_at |-> expiresAt,
                            password_hash |-> NULL, file_id |-> fileData])
       /\ UNCHANGED <<now, ticks, download_attempts, download_logs, requests,
                      clients, past,
                 files, objects, upload, page>>

\* The owner updates a link of theirs directly, as the policy "Users can
\* update share links for their files" admits: UPDATE share_links SET
\* is_active = false WHERE token = t
Deactivate(t) ==
  /\ t \in DOMAIN share_links
  /\ share_links[t].is_active
  /\ share_links' = [share_links EXCEPT ![t].is_active = FALSE]
  /\ UNCHANGED <<now, ticks, download_attempts, download_logs, requests,
                 clients, past,
                 files, objects, upload, page>>

\* by the same policy: UPDATE share_links SET password_hash = ... WHERE token = t
SetPassword(t) ==
  /\ t \in DOMAIN share_links
  /\ share_links[t].password_hash = NULL
  /\ share_links' = [share_links EXCEPT ![t].password_hash = 1]
  /\ UNCHANGED <<now, ticks, download_attempts, download_logs, requests,
                 clients, past,
                 files, objects, upload, page>>

\* ------------------------------------------------- the database API, direct

\* the download_logs rows that log_download(link_token, user_agent_text) wrote:
\* it inserts (share_link_id, user_agent) and leaves ip_address NULL
DirectLogs == {i \in DOMAIN download_logs : download_logs[i].ip_address = "NULL"}

\* rpc('log_download', {link_token, user_agent_text}): the overload with two
\* arguments, which anybody may call.  SELECT id INTO link_id ... ; IF link_id
\* IS NULL THEN RAISE EXCEPTION; INSERT INTO download_logs; UPDATE share_links
\* SET current_downloads = current_downloads + 1.  It counts no attempts and
\* writes no download_attempts row.  The call is one transaction and is taken
\* as one step here; a call that raises changes nothing.
log_download_2(link_token) ==
  /\ Cardinality(DirectLogs) < MaxDirectCalls
  /\ SelectLinkId(link_token, now) # "NULL"
  /\ download_logs' = Append(download_logs,
       [share_link_id |-> SelectLinkId(link_token, now), ip_address |-> "NULL",
        by |-> 0])
  /\ share_links' = IncrementDownloads(share_links, SelectLinkId(link_token, now))
  /\ UNCHANGED <<now, ticks, download_attempts, requests, clients, past,
                 files, objects, upload, page>>

\* ------------------------------------------------------------ the upload form

MAX_FILE_SIZE == 20 * 1024 * 1024

\* a file name as name.split('.') gives it: its parts, each a sequence of
\* characters
Dot == <<".">>
BLOCKED_EXTENSIONS ==
  {Dot \o <<"e", "x", "e">>, Dot \o <<"b", "a", "t">>, Dot \o <<"c", "m", "d">>,
   Dot \o <<"s", "h">>, Dot \o <<"a", "p", "p">>, Dot \o <<"d", "e", "b">>,
   Dot \o <<"r", "p", "m">>, Dot \o <<"m", "s", "i">>, Dot \o <<"c", "o", "m">>,
   Dot \o <<"s", "c", "r">>}

\* String.prototype.toLowerCase, on the letters of the names taken up here
LowerCase == ("E" :> "e") @@ ("X" :> "x") @@ ("S" :> "s") @@ ("H" :> "h")
toLowerCase(str) ==
  [i \in DOMAIN str |-> IF str[i] \in DOMAIN LowerCase THEN LowerCase[str[i]]
                        ELSE str[i]]

\* '.' + file.name.split('.').pop()?.toLowerCase()
fileExtension(name) == Dot \o toLowerCase(name[Len(name)])

\* the signatures of checkFileMagicNumbers
signatures ==
  {<<77, 90>>,                          \* MZ
   <<127, 69, 76, 70>>,                 \* ELF
   <<206, 250, 237, 254>>,              \* Mach-O
   <<207, 250, 237, 254>>,              \* Mach-O 64-bit
   <<202, 254, 186, 190>>,              \* Java class file
   <<33, 60, 97, 114, 99, 104, 62>>}    \* !<arch>

\* bytes[i] === sig.bytes[i] for every i; a byte past the end is undefined
Matches(bytes, sig) ==
  /\ Len(bytes) >= Len(sig)
  /\ \A i \in DOMAIN sig : bytes[i] = sig[i]

\* checkFileMagicNumbers(bytes): if (bytes.length < 4) return false; true when
\* a signature matches.  `file.bytes' holds the first bytes of the file, all of
\* them when the file has fewer than eight.
checkFileMagicNumbers(file) ==
  IF file.size < 4 THEN FALSE
  ELSE \E sig \in signatures : Matches(file.bytes, sig)

\* the files the user may select
DocPdf == << <<"d", "o", "c">>, <<"p", "d", "f">> >>
PdfBytes == <<37, 80, 68, 70, 45, 49, 46>>
UploadFiles ==
  {[name |-> DocPdf, size |-> 1024, bytes |-> PdfBytes],
   [name |-> DocPdf, size |-> MAX_FILE_SIZE, bytes |-> PdfBytes],
   [name |-> DocPdf, size |-> MAX_FILE_SIZE + 1, bytes |-> PdfBytes],
   [name |-> << <<"r", "u", "n">>, <<"E", "X", "E">> >>, size |-> 1024,
    bytes |-> PdfBytes],
   [name |-> << <<"r", "u", "n">>, <<"s", "h">> >>, size |-> 1024,
    bytes |-> PdfBytes],
   [name |-> DocPdf, size |-> 1024, bytes |-> <<77, 90, 144, 0, 3, 0, 0>>],
   [name |-> DocPdf, size |-> 3, bytes |-> <<77, 90, 144>>],
   [name |-> DocPdf, size |-> 1024, bytes |-> <<127, 69, 76, 70, 2, 1, 1>>],
   [name |-> DocPdf, size |-> 1024,
    bytes |-> <<33, 60, 97, 114, 99, 104, 62>>]}

NoFile == [name |-> << >>, size |-> 0, bytes |-> << >>]

\* the values crypto.getRandomValues may give the token
ShareTokens == {"t1", "t2"}

\* the three writes of handleRealUpload, as `wrote' records them
WriteOrder == <<"storage", "files", "share_links">>

\* useState<FileUploadState>({...}), with the locals of handleRealUpload: no
\* call of it is running
InitialUploadState ==
  [selectedFile |-> NoFile, shareLink |-> "", expirationTime |-> 24,
   maxDownloads |-> 5, isEncrypting |-> FALSE, isUploading |-> FALSE,
   isComplete |-> FALSE,
   pc |-> "idle", file |-> NoFile, filePath |-> NULL, fileData |-> NULL,
   wrote |-> << >>, outcome |-> "", collided |-> FALSE, n |-> 0]

\* gen_random_uuid(), Date.now() + Math.random(): a value not yet in use
Fresh(used) == CHOOSE i \in 1..(Cardinality(used) + 1) : i \notin used

\* a catch block that leaves the flags as they are
CatchKeepsFlags(u) == [u EXCEPT !.pc = "idle", !.outcome = "failed"]

\* catch (error): toast "Upload Failed"; isEncrypting: false, isUploading: false
Catch(u) ==
  [u EXCEPT !.isEncrypting = FALSE, !.isUploading = FALSE,
            !.pc = "idle", !.outcome = "failed"]

\* a rejection: toast and return
Reject(u) == [u EXCEPT !.isUploading = FALSE, !.pc = "idle", !.outcome = "rejected"]

\* handleFileSelect: selectedFile: file, isComplete: false, shareLink: ""
handleFileSelect(file) ==
  /\ upload.pc = "idle"
  /\ ~upload.isComplete
  /\ upload.n < MaxUploads
  /\ upload.selectedFile # file
  /\ upload' = [upload EXCEPT !.selectedFile = file, !.isComplete = FALSE,
                              !.shareLink = ""]
  /\ UNCHANGED <<now, ticks, share_links, download_attempts, download_logs,
                 requests, clients, past, files, objects, page>>

\* handleUpload: if (!state.selectedFile) return; handleRealUpload(file), up to
\* setState({isEncrypting: true}): the checks of size, extension and signature.
\* When file.arrayBuffer() throws the signature check is skipped.
handleUpload ==
  /\ upload.pc = "idle"
  /\ ~upload.isComplete
  /\ upload.selectedFile # NoFile
  /\ upload.n < MaxUploads
  /\ \E readError \in BOOLEAN :
       LET file == upload.selectedFile
           u == [upload EXCEPT !.n = @ + 1, !.file = file, !.wrote = << >>,
                               !.outcome = "", !.collided = FALSE,
                               !.filePath = NULL, !.fileData = NULL]
       IN IF file.size > MAX_FILE_SIZE
          THEN /\ ~readError
               /\ upload' = [u EXCEPT !.pc = "idle", !.outcome = "rejected"]
          ELSE IF fileExtension(file.name) \in BLOCKED_EXTENSIONS
          THEN /\ ~readError
               /\ upload' = Reject(u)
          ELSE IF ~readError /\ checkFileMagicNumbers(file)
          THEN upload' = Reject(u)
          ELSE upload' = [u EXCEPT !.isEncrypting = TRUE, !.pc = "getUser"]
  /\ UNCHANGED <<now, ticks, share_links, download_attempts, download_logs,
                 requests, clients, past, files, objects, page>>

\* supabase.auth.getUser(); throw when there is no user; the simulated
\* encryption; isEncrypting: false, isUploading: true; filePath
GetUser ==
  /\ upload.pc = "getUser"
  /\ \E user \in BOOLEAN :
       IF ~user THEN upload' = Catch(upload)
       ELSE upload' = [upload EXCEPT !.isEncrypting = FALSE, !.isUploading = TRUE,
                                     !.filePath = Fresh(objects),
                                     !.pc = "storage"]
  /\ UNCHANGED <<now, ticks, share_links, download_attempts, download_logs,
                 requests, clients, past, files, objects, page>>

\* supabase.storage.from('secure-files').upload(filePath, file);
\* if (uploadError) throw uploadError
StorageUpload ==
  /\ upload.pc = "storage"
  /\ \E uploadError \in BOOLEAN :
       IF uploadError
       THEN /\ upload' = Catch(upload)
            /\ objects' = objects
       ELSE /\ objects' = objects \cup {upload.filePath}
            /\ upload' = [upload EXCEPT !.wrote = Append(@, "storage"),
                                        !.pc = "files"]
  /\ UNCHANGED <<now, ticks, share_links, download_attempts, download_logs,
                 requests, clients, past, files, page>>

\* supabase.from('files').insert({..., storage_path: filePath}).select()
\* .single(); if (dbError) throw dbError
InsertFile ==
  /\ upload.pc = "files"
  /\ \E dbError \in BOOLEAN :
       IF dbError
       THEN /\ upload' = Catch(upload)
            /\ files' = files
       ELSE LET id == Fresh(DOMAIN files)
            IN /\ files' = files @@ (id :> [storage_path |-> upload.filePath])
               /\ upload' = [upload EXCEPT !.wrote = Append(@, "files"),
                                           !.fileData = id,
                                           !.pc = "share_links"]
  /\ UNCHANGED <<now, ticks, share_links, download_attempts, download_logs,
                 requests, clients, past, objects, page>>

\* crypto.getRandomValues(tokenArray); supabase.from('share_links').insert({
\* file_id, token, expires_at, max_downloads, is_active: true}); if (linkError)
\* throw linkError; else shareLink, isUploading: false, isComplete: true.  The
\* insert fails when the token is taken (share_links_token_unique) and when
\* the store fails.
InsertShareLink ==
  /\ upload.pc = "share_links"
  /\ \E shareToken \in ShareTokens, storeError \in BOOLEAN :
       LET expiresAt == now + upload.expirationTime * Hour
           taken == shareToken \in DOMAIN share_links
           linkError == taken \/ storeError
       IN IF linkError
          THEN /\ upload' = Catch([upload EXCEPT !.collided = taken])
               /\ share_links' = share_links
          ELSE /\ share_links' = share_links @@
                    (shareToken :> [max_downloads |-> upload.maxDownloads,
                                    current_downloads |-> 0, is_active |-> TRUE,
                                    expires_at |-> expiresAt,
                                    password_hash |-> NULL,
                                    file_id |-> upload.fileData])
               /\ upload' = [upload EXCEPT !.wrote = Append(@, "share_links"),
                                           !.isUploading = FALSE,
                                           !.shareLink = shareToken,
                                           !.isComplete = TRUE,
                                           !.pc = "idle", !.outcome = "done"]
  /\ UNCHANGED <<now, ticks, download_attempts, download_logs,
                 requests, clients, past, files, objects, page>>

\* resetUpload, the button of the completed view: the state as at first
resetUpload ==
  /\ upload.pc = "idle"
  /\ upload.isComplete
  /\ upload.n < MaxUploads
  /\ upload' = [InitialUploadState EXCEPT !.n = upload.n]
  /\ UNCHANGED <<now, ticks, share_links, download_attempts, download_logs,
                 requests, clients, past, files, objects, page>>

NextUpload ==
  \/ \E file \in UploadFiles : handleFileSelect(file)
  \/ handleUpload
  \/ GetUser
  \/ StorageUpload
  \/ InsertFile
  \/ InsertShareLink
  \/ resetUpload

\* ------------------------------------------------------------- the dashboard

\* ON DELETE CASCADE of share_links.file_id and of download_logs.share_link_id:
\* the links of the deleted file go, and with them their download logs
CascadeLinks(links, fileId) ==
  [t \in {t \in DOMAIN links : links[t].file_id # fileId} |-> links[t]]

CascadeLogs(logs, links, fileId) ==
  SelectSeq(logs, LAMBDA row : \/ row.share_link_id \notin DOMAIN links
                               \/ links[row.share_link_id].file_id # fileId)

\* a cascade that would reach the attempts made with the tokens of the file
CascadeAttemptsByToken(attempts, links, fileId) ==
  SelectSeq(attempts, LAMBDA row : \/ row.token \notin DOMAIN links
                                   \/ links[row.token].file_id # fileId)

\* download_attempts has no foreign key: the deletion of a file leaves it alone
CascadeAttempts(attempts, links, fileId) == attempts

\* handleDeleteFile(fileId, storagePath): storage.remove([storagePath]), throw
\* on error; files.delete().eq("id", fileId), with its cascades
handleDeleteFile(fileId) ==
  /\ fileId \in DOMAIN files
  /\ \E storageError \in BOOLEAN, dbError \in BOOLEAN :
       IF storageError
       THEN /\ ~dbError
            /\ UNCHANGED <<objects, files, share_links, download_logs,
                           download_attempts>>
       ELSE /\ objects' = objects \ {files[fileId].storage_path}
            /\ IF dbError
               THEN UNCHANGED <<files, share_links, download_logs,
                                download_attempts>>
               ELSE /\ files' = [f \in DOMAIN files \ {fileId} |-> files[f]]
                    /\ share_links' = CascadeLinks(share_links, fileId)
                    /\ download_logs' =
                         CascadeLogs(download_logs, share_links, fileId)
                    /\ download_attempts' =
                         CascadeAttempts(download_attempts, share_links, fileId)
  /\ UNCHANGED <<now, ticks, requests, clients, past, upload, page>>

\* ---------------------------------------------------------- the download page

\* useState<FileMetadata>({... currentDownloads: 0, isValid: false ...}),
\* isLoading true, isDownloading false; no handleDownload is running
InitialPageState ==
  [token |-> "t1", currentDownloads |-> 0, maxDownloads |-> NULL,
   isValid |-> FALSE, isLoading |-> TRUE, isDownloading |-> FALSE,
   error |-> "", pc |-> "idle", req |-> 0, finished |-> 0]

\* catch (error): toast "Download Failed"; setIsDownloading(false)
DownloadFailed(p) ==
  [p EXCEPT !.isDownloading = FALSE, !.pc = "idle", !.finished = @ + 1]

\* useEffect, fetchFileData: rpc('get_share_link_by_token'); setError on an
\* error or on no row; else setFileData({... currentDownloads:
\* linkData.current_downloads ...}); setIsLoading(false)
fetchFileData ==
  /\ page.isLoading
  /\ \E linkError \in BOOLEAN :
       LET shareLink == get_share_link_by_token(page.token, now)
       IN IF linkError \/ Len(shareLink) = 0
          THEN page' = [page EXCEPT !.error = "File not found or invalid link",
                                    !.isLoading = FALSE]
          ELSE LET linkData == shareLink[1]
                   isExpired == IF linkData.expires_at # NULL
                                THEN linkData.expires_at < now ELSE FALSE
                   limitReached ==
                     IF linkData.max_downloads \notin {NULL, 0}
                     THEN linkData.current_downloads >= linkData.max_downloads
                     ELSE FALSE
               IN page' = [page EXCEPT
                    !.maxDownloads = linkData.max_downloads,
                    !.currentDownloads = linkData.current_downloads,
                    !.isValid = linkData.is_active /\ ~isExpired /\ ~limitReached,
                    !.isLoading = FALSE]
  /\ UNCHANGED <<now, ticks, share_links, download_attempts, download_logs,
                 requests, clients, past, files, objects, upload>>

\* handleDownload, up to the await of supabase.functions.invoke(
\* 'download-file', {body: {token}}): if (!fileData || isDownloading) return;
\* setIsDownloading(true).  The button is shown for a valid link without
\* error.  The request of the page arrives at the edge function.
handleDownload ==
  /\ ~page.isLoading
  /\ page.error = ""
  /\ page.isValid
  /\ ~page.isDownloading
  /\ Cardinality(InFlight) < NumWorkers
  /\ Len(requests) < MaxRequests
  /\ \E ip \in IpChoices, linkError \in BOOLEAN :
       Received(page.token, ip, linkError)
  /\ page' = [page EXCEPT !.isDownloading = TRUE, !.pc = "invoke",
                          !.req = Len(requests) + 1]
  /\ UNCHANGED <<now, ticks, share_links, download_attempts, download_logs,
                 clients, past, files, objects, upload>>

\* the answer of the edge function arrives: if (downloadError ||
\* !downloadData?.signedUrl) throw; a status other than 2xx is an error
InvokeReturns ==
  /\ page.pc = "invoke"
  /\ requests[page.req].pc = "done"
  /\ page' = IF requests[page.req].status # 200 THEN DownloadFailed(page)
             ELSE [page EXCEPT !.pc = "fetch"]
  /\ UNCHANGED <<now, ticks, share_links, download_attempts, download_logs,
                 requests, clients, past, files, objects, upload>>

\* fetch(downloadData.signedUrl); if (!response.ok) throw; the file is saved;
\* setFileData(prev => ({...prev, currentDownloads: prev.currentDownloads + 1
\* ...})); setIsDownloading(false)
FetchFile ==
  /\ page.pc = "fetch"
  /\ \E ok \in BOOLEAN :
       page' = IF ~ok THEN DownloadFailed(page)
               ELSE [page EXCEPT !.currentDownloads = @ + 1,
                                 !.isDownloading = FALSE, !.pc = "idle",
                                 !.finished = @ + 1]
  /\ UNCHANGED <<now, ticks, share_links, download_attempts, download_logs,
                 requests, clients, past, files, objects, upload>>

\* the steps of the requests alone, the clock standing still
NextServe ==
  \/ Begin
  \/ \E r \in DOMAIN requests : Validate(r)
  \/ \E r \in DOMAIN requests : CheckIpLimit(r)
  \/ \E r \in DOMAIN requests : CheckTokenLimit(r)
  \/ \E r \in DOMAIN requests : SelectLink(r)
  \/ \E r \in DOMAIN requests : Commit(r)
  \/ \E r \in DOMAIN requests : StoreFail(r)
  \/ \E r \in DOMAIN requests : Sign(r)

Next ==
  \/ Begin
  \/ \E r \in DOMAIN requests : Validate(r)
  \/ \E r \in DOMAIN requests : CheckIpLimit(r)
  \/ \E r \in DOMAIN requests : CheckTokenLimit(r)
  \/ \E r \in DOMAIN requests : SelectLink(r)
  \/ \E r \in DOMAIN requests : Commit(r)
  \/ \E r \in DOMAIN requests : StoreFail(r)
  \/ \E r \in DOMAIN requests : Sign(r)
  \/ Tick

\* ------------------------------------------------------------ initial states

LinkRows ==
  [max_downloads : {1}, current_downloads : {0},
   is_active : BOOLEAN, expires_at : {NULL, 0, 1}, password_hash : {NULL},
   file_id : {1}]

\* a fresh database: a link just created with a limit of one download, no
\* attempt made yet
Init ==
  /\ now = 0
  /\ ticks = 0
  /\ share_links \in [LinkTokens -> LinkRows]
  /\ download_attempts = << >>
  /\ download_logs = << >>
  /\ requests = << >>
  /\ clients = {"ip1"}
  /\ past = [downloads |-> 0, unknowns |-> 0]
  /\ files = (1 :> [storage_path |-> 1])
  /\ objects = {1}
  /\ upload = InitialUploadState
  /\ page = InitialPageState

Spec == Init /\ [][Next]_vars

\* The handler is one sequential async function: once log_download has
\* returned, its next statement, the call of createSignedUrl, is executed.
\* It is followed while the clock stands still.
SpecLive ==
  Init /\ [][NextServe]_vars /\ WF_vars(\E r \in DOMAIN requests : Sign(r))

\* The database after k downloads of the unlimited link "t1" from "ip1", or
\* after f requests for the unknown token from "ip2", all served one after the
\* other at minute 0.  Each download committed its three writes; each request
\* for the unknown token was answered 404 after the lookup and wrote nothing.
\* The address that made them goes on asking.
InitRate ==
  /\ now = 0
  /\ ticks = 0
  /\ \E p \in {<<IpLimit - 1, 0>>, <<IpLimit, 0>>,
               <<0, TokenFailLimit>>, <<0, IpLimit>>} :
     LET k == p[1]
         f == p[2]
     IN
       /\ share_links = [t \in LinkTokens |->
            [max_downloads |-> NULL, current_downloads |-> k,
             is_active |-> TRUE, expires_at |-> NULL, password_hash |-> NULL,
             file_id |-> 1]]
       /\ download_attempts = [i \in 1..k |->
            [ip_address |-> "ip1", token |-> "t1", attempted_at |-> 0,
             success |-> TRUE, by |-> 0]]
       /\ download_logs = [i \in 1..k |->
            [share_link_id |-> "t1", ip_address |-> "ip1", by |-> 0]]
       /\ past = [downloads |-> k, unknowns |-> f]
       /\ clients = IF k > 0 THEN {"ip1"} ELSE {"ip2"}
  /\ requests = << >>
  /\ files = (1 :> [storage_path |-> 1])
  /\ objects = {1}
  /\ upload = InitialUploadState
  /\ page = InitialPageState

SpecRate == InitRate /\ [][Next]_vars

\* the download path together with the owner's side: links are created and
\* deactivated while requests are served
NextOwner ==
  \/ Next
  \/ CreateLink
  \/ \E t \in LinkTokens : Deactivate(t)

\* a database without links: the object and the files row of the first upload
\* are written, no link is shared yet, no attempt made
InitOwner ==
  /\ now = 0
  /\ ticks = 0
  /\ share_links = << >>
  /\ download_attempts = << >>
  /\ download_logs = << >>
  /\ requests = << >>
  /\ clients = {"ip1"}
  /\ past = [downloads |-> 0, unknowns |-> 0]
  /\ files = (1 :> [storage_path |-> 1])
  /\ objects = {1}
  /\ upload = InitialUploadState
  /\ page = InitialPageState

SpecOwner == InitOwner /\ [][NextOwner]_vars

\* the same, with links that are given a password and with direct calls of
\* the database API
NextAdmin ==
  \/ NextOwner
  \/ \E t \in LinkTokens : SetPassword(t)
  \/ \E t \in LinkTokens : log_download_2(t)

\* The database of an owner who, more than an hour ago, shared a file under
\* the token "t0" for one download, which was made.  The owner is about to
\* share a second file, whose object and files row are written.
InitAdmin ==
  /\ now = 0
  /\ ticks = 0
  /\ share_links = (OldToken :>
       [max_downloads |-> 1, current_downloads |-> 1, is_active |-> TRUE,
        expires_at |-> NULL, password_hash |-> NULL, file_id |-> 0])
  /\ download_attempts = << [ip_address |-> "ip2", token |-> OldToken,
                             attempted_at |-> 0 - 2 * Hour, success |-> TRUE,
                             by |-> 0] >>
  /\ download_logs = << [share_link_id |-> OldToken, ip_address |-> "ip2",
                         by |-> 0] >>
  /\ requests = << >>
  /\ clients = {"ip1"}
  /\ past = [downloads |-> 0, unknowns |-> 0]
  /\ files = (0 :> [storage_path |-> 0]) @@ (1 :> [storage_path |-> 1])
  /\ objects = {0, 1}
  /\ upload = InitialUploadState
  /\ page = InitialPageState

SpecAdmin == InitAdmin /\ [][NextAdmin]_vars

\* the upload form alone, on an empty project: nothing stored, nothing shared
InitUpload ==
  /\ now = 0
  /\ ticks = 0
  /\ share_links = << >>
  /\ download_attempts = << >>
  /\ download_logs = << >>
  /\ requests = << >>
  /\ clients = {"ip1"}
  /\ past = [downloads |-> 0, unknowns |-> 0]
  /\ files = << >>
  /\ objects = {}
  /\ upload = InitialUploadState
  /\ page = InitialPageState

SpecUpload == InitUpload /\ [][NextUpload]_vars

\* the download path together with the dashboard: the owner deletes files
\* while requests are served.  The clock stands still: the requests fall in
\* the hour of the downloads before them.
NextLedger ==
  \/ NextServe
  \/ \E fileId \in DOMAIN files : handleDeleteFile(fileId)

\* The database after nineteen downloads of the unlimited link "t1" from
\* "ip1", served one after the other at minute 0: one more is admitted, the
\* one after it is not.
InitLedger ==
  /\ now = 0
  /\ ticks = 0
  /\ share_links = [t \in LinkTokens |->
       [max_downloads |-> NULL, current_downloads |-> IpLimit - 1,
        is_active |-> TRUE, expires_at |-> NULL, password_hash |-> NULL,
        file_id |-> 1]]
  /\ download_attempts = [i \in 1..(IpLimit - 1) |->
       [ip_address |-> "ip1", token |-> "t1", attempted_at |-> 0,
        success |-> TRUE, by |-> 0]]
  /\ download_logs = [i \in 1..(IpLimit - 1) |->
       [share_link_id |-> "t1", ip_address |-> "ip1", by |-> 0]]
  /\ past = [downloads |-> IpLimit - 1, unknowns |-> 0]
  /\ clients = {"ip1"}
  /\ requests = << >>
  /\ files = (1 :> [storage_path |-> 1])
  /\ objects = {1}
  /\ upload = InitialUploadState
  /\ page = InitialPageState

SpecLedger == InitLedger /\ [][NextLedger]_vars

\* a download page open on the link "t1", among the requests of other
\* clients; the clock stands still
NextPage ==
  \/ NextServe
  \/ fetchFileData
  \/ handleDownload
  \/ InvokeReturns
  \/ FetchFile

\* the link "t1" is just created, without limit and without expiry, and the
\* page is being opened
InitPage ==
  /\ now = 0
  /\ ticks = 0
  /\ share_links = [t \in LinkTokens |->
       [max_downloads |-> NULL, current_downloads |-> 0, is_active |-> TRUE,
        expires_at |-> NULL, password_hash |-> NULL, file_id |-> 1]]
  /\ download_attempts = << >>
  /\ download_logs = << >>
  /\ requests = << >>
  /\ clients = {"ip1"}
  /\ past = [downloads |-> 0, unknowns |-> 0]
  /\ files = (1 :> [storage_path |-> 1])
  /\ objects = {1}
  /\ upload = InitialUploadState
  /\ page = InitialPageState

SpecPage == InitPage /\ [][NextPage]_vars

\* ------------------------------------------------------------------ claims

\* the rows of a table that request r wrote
AttemptsBy(r, ok) ==
  Cardinality({i \in DOMAIN download_attempts :
                 download_attempts[i].by = r /\ download_attempts[i].success = ok})

LogsBy(r) ==
  Cardinality({i \in DOMAIN download_logs : download_logs[i].by = r})

\* the rows of a table that belong to the link with token t
SuccessRows(t) ==
  Cardinality({i \in DOMAIN download_attempts :
                 download_attempts[i].token = t /\ download_attempts[i].success})

LogRows(t) ==
  Cardinality({i \in DOMAIN download_logs : download_logs[i].share_link_id = t})

\* the signed URLs issued to the requests 1..n for token t
RECURSIVE UrlsIssued(_, _)
UrlsIssued(t, n) ==
  IF n = 0 THEN 0
  ELSE UrlsIssued(t, n - 1) + (IF requests[n].token = t THEN requests[n].urls ELSE 0)

Answered(r) == requests[r].status # 0

\* request r exists and its consume has committed
ConsumeCommitted(r) ==
  IF r \in DOMAIN requests THEN requests[r].consumed = 1 ELSE FALSE

\* request r exists and the signed-URL issuer has been called once for it
IssuerCalledOnce(r) ==
  IF r \in DOMAIN requests THEN Len(requests[r].signCalls) = 1 ELSE FALSE

\* C1: for every link with max_downloads = N, current_downloads <= N in every
\* reachable state, whatever the interleaving of the download requests.
C1_AtMostN ==
  \A t \in DOMAIN share_links :
    share_links[t].max_downloads # NULL =>
      share_links[t].current_downloads <= share_links[t].max_downloads

\* C2: on a link with max_downloads = 1 and current_downloads = 0 at the start,
\* no interleaving of two requests gives a 200 with a signed URL to both.
C2_NeverTwoSignedUrls ==
  \A t \in DOMAIN share_links :
    share_links[t].max_downloads = 1 =>
      Cardinality({r \in DOMAIN requests :
                     requests[r].token = t /\ requests[r].status = 200}) <= 1

\* C3: one call of log_download commits all three of its effects or none: in
\* every reachable state, also after a store failure or a cancellation in the
\* middle of a call, each request has as many download_logs rows as successful
\* download_attempts rows (at most one), and each link's current_downloads
\* equals the number of its successful attempts and of its download logs.
C3_ConsumeAtomic ==
  /\ \A r \in DOMAIN requests :
       /\ AttemptsBy(r, TRUE) = LogsBy(r)
       /\ AttemptsBy(r, TRUE) <= 1
  /\ \A t \in DOMAIN share_links :
       /\ share_links[t].current_downloads = SuccessRows(t)
       /\ share_links[t].current_downloads = LogRows(t)

\* C3 witness: one call has committed its three effects, and another call
\* was ended by a store failure.
C3_Witness ==
  /\ \E r \in DOMAIN requests :
       /\ AttemptsBy(r, TRUE) = 1 /\ LogsBy(r) = 1
       /\ share_links[requests[r].token].current_downloads >= 1
  /\ \E r \in DOMAIN requests :
       requests[r].status = 403 /\ requests[r].body = MsgStoreError

\* C4: a signed URL is issued for a request only after that request's
\* log_download has committed, and the signed URLs issued for a link are at
\* most the committed successful consumes of that link.
C4_UrlOnlyAfterConsume ==
  /\ \A r \in DOMAIN requests :
       requests[r].urls > 0 => AttemptsBy(r, TRUE) >= 1
  /\ \A t \in DOMAIN share_links :
       UrlsIssued(t, Len(requests)) <= SuccessRows(t)

\* C4 witness: a request was answered 200 with a signed URL after its consume;
\* another request's consume failed and it was answered 403.
C4_Witness ==
  /\ \E r \in DOMAIN requests :
       requests[r].status = 200 /\ requests[r].urls = 1 /\ AttemptsBy(r, TRUE) = 1
  /\ \E r \in DOMAIN requests :
       requests[r].status = 403 /\ requests[r].linkRead

\* C5: a request received when the link's expires_at is at or before the
\* current time never succeeds and never changes current_downloads, whatever
\* current_downloads, max_downloads and is_active are; and no consume commits
\* in a transaction that started at or after expires_at.
C5_ExpiredNeverUsable ==
  /\ \A r \in DOMAIN requests :
       requests[r].expiredAtStart =>
         /\ requests[r].status # 200
         /\ requests[r].urls = 0
         /\ requests[r].consumed = 0
         /\ AttemptsBy(r, TRUE) = 0
         /\ LogsBy(r) = 0
  /\ \A i \in DOMAIN download_attempts :
       LET l == share_links[download_attempts[i].token]
       IN download_attempts[i].success =>
            (l.expires_at = NULL \/ download_attempts[i].attempted_at < l.expires_at)

\* C5 witness: a request for a link that is active and under its limit, but
\* expired when the request was received, has been answered.
C5_Witness ==
  \E r \in DOMAIN requests :
    /\ requests[r].expiredAtStart
    /\ Answered(r)
    /\ requests[r].linkRead
    /\ share_links[requests[r].token].is_active
    /\ share_links[requests[r].token].current_downloads
         < share_links[requests[r].token].max_downloads

\* C6: an attempt from an IP address that has made 20 or more attempts
\* (successful or failed, against any token) in the trailing hour is rejected
\* as rate-limited, whichever token it targets.
C6_IpWindowRejects ==
  \A r \in DOMAIN requests :
    requests[r].overIp => requests[r].kind \notin {"ok", "invalid"}

\* C7: an attempt against a token that has had 10 failed attempts in the
\* trailing hour is rejected as rate-limited.
C7_TokenWindowRejects ==
  \A r \in DOMAIN requests :
    requests[r].overTok => requests[r].kind \notin {"ok", "invalid"}

\* C8: a request for an unknown token leaves exactly one download_attempts row
\* with success = false for that request, and no download_logs row.
C8_UnknownTokenLogged ==
  \A r \in DOMAIN requests :
    (requests[r].token = UnknownToken /\ Answered(r) /\ requests[r].kind # "infra") =>
      (AttemptsBy(r, FALSE) = 1 /\ LogsBy(r) = 0)

\* C9: the windows slide: an IP address that made 20 attempts at minute 0 is
\* rejected at minute 1, and is accepted again for a usable link once those
\* attempts are more than one hour old.
C9_SlidingWindow ==
  \A r \in DOMAIN requests :
    LET atZero == PastAttempts(requests[r].ip)
                  + Cardinality({i \in DOMAIN requests :
                      /\ requests[i].ip = requests[r].ip
                      /\ requests[i].kind \in {"ok", "invalid"}
                      /\ requests[i].at = 0})
    IN (atZero >= IpLimit /\ requests[r].token \in LinkTokens
          /\ requests[r].kind \in {"ok", "invalid", "ratelimited"}) =>
         /\ requests[r].at = 1 => requests[r].kind = "ratelimited"
         /\ (requests[r].at > Hour /\ ~requests[r].overIp) =>
              requests[r].kind = "ok"

\* C10: the rate-limit checks run before any read of share_links: the first
\* table a request reads is download_attempts, and a request rejected by the
\* per-IP limit has not read share_links.
C10_RateCheckBeforeLookup ==
  \A r \in DOMAIN requests :
    /\ requests[r].linkRead => requests[r].firstRead = "download_attempts"
    /\ requests[r].body = MsgIpRate => ~requests[r].linkRead

\* C11: a request rejected by a rate-limit window writes nothing: it leaves no
\* row in download_attempts (neither successful nor failed) and none in
\* download_logs, and it has not changed any counter of share_links.
C11_RateLimitedWritesNothing ==
  \A r \in DOMAIN requests :
    requests[r].kind = "ratelimited" =>
      /\ AttemptsBy(r, TRUE) = 0
      /\ AttemptsBy(r, FALSE) = 0
      /\ LogsBy(r) = 0
      /\ requests[r].consumed = 0

\* C11 witness: an address with 20 recorded attempts in the hour has had a
\* request rejected by the per-IP window, and has 20 recorded attempts still.
C11_Witness ==
  \E r \in DOMAIN requests :
    /\ requests[r].kind = "ratelimited"
    /\ requests[r].status = 403
    /\ requests[r].body = MsgIpRate
    /\ RecentAttempts(requests[r].ip, requests[r].at) = IpLimit

\* C12: a consume commits on a link only if the link is usable at that moment:
\* every step that raises a link's current_downloads starts in a state where
\* the link is active, unexpired and under its limit.  In particular no
\* consume commits once the deactivation of the link is committed, not even
\* for a request that had passed the lookup before.
C12_ConsumeOnlyIfUsable ==
  [][\A t \in DOMAIN share_links :
       (t \in DOMAIN share_links'
          /\ share_links'[t].current_downloads > share_links[t].current_downloads)
       => Usable(share_links[t], now)]_vars

\* C13: a link that has a password set is downloaded only with the matching
\* password: a request that carries only the token (the only kind of request
\* the endpoint reads) and is received while the link's password_hash is set
\* never obtains a signed URL.
C13_PasswordRequired ==
  \A r \in DOMAIN requests :
    requests[r].protectedAtStart =>
      (requests[r].urls = 0 /\ requests[r].status # 200)

\* C14: once all migrations have run, an unauthenticated caller gets share-link
\* data only from get_share_link_by_token called with the exact token: a SELECT
\* on share_links returns no row to such a caller, whatever its WHERE clause,
\* and the function returns no row whose token differs from its argument.
C14_ExactTokenOnly ==
  /\ SelectShareLinks("anon", now) = {}
  /\ \A link_token \in ProbeTokens :
       \A i \in DOMAIN get_share_link_by_token(link_token, now) :
         get_share_link_by_token(link_token, now)[i].token = link_token

\* C14 witness: a usable link exists; its owner's SELECT returns it, the
\* function returns it for its token (a request is being served with the row
\* it returned), and the unauthenticated SELECT is empty.
C14_Witness ==
  \E link_token \in DOMAIN share_links :
    /\ Usable(share_links[link_token], now)
    /\ \E r \in DOMAIN requests : requests[r].shareLink.token = link_token
    /\ link_token \in SelectShareLinks("owner", now)
    /\ Len(get_share_link_by_token(link_token, now)) = 1
    /\ SelectShareLinks("anon", now) = {}

\* C15: get_share_link_by_token(t) returns at most one row; it returns a row
\* exactly when a link is stored under the token t itself and that link is
\* active, unexpired and under its download limit at the time of the call, and
\* the row is that link's; otherwise it returns nothing.  A handler that holds
\* a row holds the row of the token it was asked for.
C15_LookupExact ==
  /\ \A link_token \in ProbeTokens :
       LET rows == get_share_link_by_token(link_token, now)
       IN /\ Len(rows) <= 1
          /\ Len(rows) = 1 <=>
               /\ link_token \in DOMAIN share_links
               /\ share_links[link_token].is_active = TRUE
               /\ \/ share_links[link_token].expires_at = NULL
                  \/ share_links[link_token].expires_at > now
               /\ \/ share_links[link_token].max_downloads = NULL
                  \/ share_links[link_token].current_downloads
                       < share_links[link_token].max_downloads
          /\ Len(rows) = 1 =>
               /\ rows[1].token = link_token
               /\ \A c \in ReturnedColumns : rows[1][c] = share_links[link_token][c]
  /\ \A r \in DOMAIN requests :
       requests[r].shareLink # NoLink =>
         requests[r].shareLink.token = requests[r].token

\* C15 witness: the function returned the row of a link to one request, which
\* was served, and nothing to a later request for the same token, the link
\* being used up by then.
C15_Witness ==
  \E r1, r2 \in DOMAIN requests :
    /\ requests[r1].token \in DOMAIN share_links
    /\ requests[r1].urls = 1
    /\ requests[r2].token = requests[r1].token
    /\ requests[r2].status = 404
    /\ requests[r2].kind = "invalid"
    /\ Len(get_share_link_by_token(requests[r1].token, now)) = 0

\* C16: the endpoint tells an expired link from an exhausted one: the answer
\* (status and body) to a request turned away because its link had expired
\* differs from the answer to a request turned away because its link had
\* reached its download limit.
C16_ExpiredDiffersFromExhausted ==
  \A r1, r2 \in DOMAIN requests :
    (requests[r1].why = {"expired"} /\ requests[r2].why = {"exhausted"}) =>
      <<requests[r1].status, requests[r1].body>>
        # <<requests[r2].status, requests[r2].body>>

\* C17: the endpoint answers 404 only when no link is stored under the token;
\* a request turned away because its link, which exists, is expired, exhausted
\* or inactive is answered 403 and has not changed current_downloads.
C17_NotFoundOnlyIfUnknown ==
  \A r \in DOMAIN requests :
    /\ (requests[r].status = 404 /\ requests[r].kind # "infra") =>
         requests[r].why = {"unknown"}
    /\ requests[r].why \cap {"expired", "exhausted", "inactive"} # {} =>
         (requests[r].status = 403 /\ requests[r].consumed = 0)

\* C18: a request during which the store fails, in the lookup RPC or in the
\* consume RPC, is answered 500, never 404 or 403.
C18_StoreFailureIs500 ==
  \A r \in DOMAIN requests :
    (Answered(r) /\ requests[r].kind = "infra") => requests[r].status = 500

\* C19: the answer to a rate-limited request does not tell which window
\* tripped: a request rejected by the per-IP window and one rejected by the
\* per-token window get the same status and body; and no response body is an
\* error text raised by the store.
C19_RateLimitOpaque ==
  /\ \A r1, r2 \in DOMAIN requests :
       (requests[r1].why = {"ip_window"} /\ requests[r2].why = {"token_window"}) =>
         <<requests[r1].status, requests[r1].body>>
           = <<requests[r2].status, requests[r2].body>>
  /\ \A r \in DOMAIN requests :
       Answered(r) => requests[r].body \notin RaisedMessages

C21_CounterMatchesAttempts ==
  \A t \in DOMAIN share_links :
    share_links[t].current_downloads = SuccessRows(t)

\* C22: each committed consume is followed by exactly one call of the
\* signed-URL issuer for its request, with a TTL of 3600 seconds: the issuer is
\* called at most once per request, only with that TTL and only after the
\* request's consume; and a request whose consume has committed is, in the
\* end, a request for which the issuer has been called.
C22_SignedOncePerConsume ==
  /\ [](\A r \in DOMAIN requests :
         /\ Len(requests[r].signCalls) <= 1
         /\ \A i \in DOMAIN requests[r].signCalls :
              requests[r].signCalls[i] = 3600 /\ requests[r].consumed = 1)
  /\ \A r \in 1..MaxRequests :
       [](ConsumeCommitted(r) => <>IssuerCalledOnce(r))

\* C22 witness: after its consume a request has had its one call of the
\* issuer; another request, whose consume did not commit, has had none.
C22_Witness ==
  \E r1, r2 \in DOMAIN requests :
    /\ requests[r1].consumed = 1 /\ Len(requests[r1].signCalls) = 1
    /\ Answered(r1)
    /\ requests[r2].consumed = 0 /\ Len(requests[r2].signCalls) = 0
    /\ Answered(r2) /\ requests[r2].linkRead

\* the share links of the file that the running or last upload stored
LinksOfUpload ==
  {t \in DOMAIN share_links : share_links[t].file_id = upload.fileData}

\* C23: an upload whose insert into share_links met a token that was taken
\* has generated a fresh token and inserted again: when handleRealUpload has
\* returned, the upload is complete and its file has a share link.  (That no
\* two rows hold one token is the constraint share_links_token_unique.)
C23_CollisionRetried ==
  (upload.pc = "idle" /\ upload.collided) =>
     /\ upload.outcome = "done"
     /\ upload.isComplete
     /\ LinksOfUpload # {}

\* every row of `before' is in `after', unchanged and at its place
IsPrefix(before, after) ==
  /\ Len(before) <= Len(after)
  /\ \A i \in DOMAIN before : after[i] = before[i]

\* C24: download_attempts is append-only: no step of the system, be it a
\* consume, a failed consume, a request that is rate limited or the deletion
\* of a file with its cascades, changes or removes a row that is there.
C24_AttemptsAppendOnly ==
  [][IsPrefix(download_attempts, download_attempts')]_vars

\* a download was made on top of the nineteen before it, and then the file was
\* deleted: its link is gone and the twenty attempts are there
C24_Witness ==
  /\ files = << >>
  /\ share_links = << >>
  /\ Len(download_attempts) = IpLimit
  /\ \E r \in DOMAIN requests : requests[r].consumed = 1 /\ AttemptsBy(r, TRUE) = 1

\* C25: download_logs is append-only: a step adds at most the one row of a
\* consume that commits, and no step, the deletion of the file a link belongs
\* to included, changes or removes a row that is there.
C25_LogsAppendOnly ==
  [][/\ IsPrefix(download_logs, download_logs')
     /\ Len(download_logs') <= Len(download_logs) + 1
     /\ Len(download_logs') = Len(download_logs) + 1 =>
          \E r \in DOMAIN requests :
             /\ requests[r].consumed = 0
             /\ requests'[r].consumed = 1]_vars

\* C26: a request without token, or with an empty one, is answered 400 and
\* has touched nothing of the store: it made no lookup and no call of
\* log_download, wrote no row of either ledger and asked for no signed URL.
C26_MissingTokenNoStoreAccess ==
  \A r \in DOMAIN requests :
     requests[r].token = EmptyToken =>
        /\ requests[r].status = 400
        /\ requests[r].body = MsgTokenRequired
        /\ requests[r].firstRead = ""
        /\ ~requests[r].linkRead
        /\ requests[r].consumed = 0
        /\ AttemptsBy(r, TRUE) + AttemptsBy(r, FALSE) + LogsBy(r) = 0
        /\ requests[r].signCalls = << >>

\* a request without token was answered, and one with a token was served
C26_Witness ==
  \E r1, r2 \in DOMAIN requests :
     /\ requests[r1].token = EmptyToken
     /\ requests[r1].status = 400
     /\ requests[r2].token # EmptyToken
     /\ requests[r2].linkRead
     /\ requests[r2].status = 200

\* what the rejection of a file rests on: it is larger than 20 MB; the part of
\* its name after the last dot is, letter case aside, a blocked extension; its
\* first bytes are those of a signature of an executable
TooLarge(file) == file.size > 20 * 1024 * 1024

HasBlockedExtension(file) ==
  /\ Len(file.name) >= 2
  /\ \E blocked \in BLOCKED_EXTENSIONS :
        toLowerCase(file.name[Len(file.name)]) = Tail(blocked)

HasExecutableSignature(file) == \E sig \in signatures : Matches(file.bytes, sig)

\* C27: handleRealUpload, called with a file that is too large, that has a
\* blocked extension or that begins with the signature of an executable,
\* writes nothing: no storage object, no files row, no share link.
C27_RejectedBeforeAnyWrite ==
  (/\ upload.n > 0
   /\ \/ TooLarge(upload.file)
      \/ HasBlockedExtension(upload.file)
      \/ HasExecutableSignature(upload.file)) =>
     upload.wrote = << >>

\* the successful attempts of an address in the hour that ends at minute t
SuccessesInHour(ip, t) ==
  Cardinality({i \in DOMAIN download_attempts :
                 /\ download_attempts[i].ip_address = ip
                 /\ download_attempts[i].success
                 /\ download_attempts[i].attempted_at > t - Hour
                 /\ download_attempts[i].attempted_at <= t})

\* C28: whatever the interleaving of the requests of one address, no hour
\* holds more than 20 successful download_attempts rows of that address.
C28_NoTwentyFirstInAnyHour ==
  \A ip \in Ips :
    \A i \in DOMAIN download_attempts :
       SuccessesInHour(ip, download_attempts[i].attempted_at) <= 20

\* the requests for a link whose consume has committed
Consumes(t) ==
  Cardinality({r \in DOMAIN requests :
                 requests[r].token = t /\ requests[r].consumed = 1})

\* C29: a request whose consume committed and for which no signed URL could be
\* made is answered 500, and its consume stays: its successful attempt, its
\* download log and its unit of current_downloads are there.
C29_SignFailureKeepsConsume ==
  \A r \in DOMAIN requests :
     (Answered(r) /\ requests[r].consumed = 1 /\ requests[r].urls = 0) =>
        /\ requests[r].status = 500
        /\ requests[r].body = MsgUrlFailed
        /\ AttemptsBy(r, TRUE) = 1
        /\ LogsBy(r) = 1
        /\ share_links[requests[r].token].current_downloads
             >= Consumes(requests[r].token)

\* the issuer failed for a request after its consume: the link's only
\* download is spent and no URL was delivered
C29_Witness ==
  \E r \in DOMAIN requests :
     /\ requests[r].status = 500
     /\ requests[r].consumed = 1
     /\ Len(requests[r].signCalls) = 1
     /\ requests[r].urls = 0
     /\ share_links[requests[r].token].current_downloads = 1
     /\ share_links[requests[r].token].max_downloads = 1

\* the files rows that hold the storage path of the running or last upload
FilesOfUpload ==
  {f \in DOMAIN files : files[f].storage_path = upload.filePath}

\* C30: the writes of one call of handleRealUpload come in the order storage
\* upload, files insert, share_links insert; isComplete is set, with a
\* shareLink that is not empty, only when all three are made; and when the
\* call has failed, what it wrote before is still there (the object, without
\* a files row when the files insert failed; the files row, without a share
\* link when the share_links insert failed) and isEncrypting and isUploading
\* are both false.
C30_WriteOrderAndFailure ==
  /\ IsPrefix(upload.wrote, WriteOrder)
  /\ upload.isComplete =>
       /\ upload.wrote = WriteOrder
       /\ upload.shareLink # ""
       /\ upload.shareLink \in LinksOfUpload
  /\ upload.outcome = "failed" =>
       /\ ~upload.isEncrypting
       /\ ~upload.isUploading
       /\ ~upload.isComplete
       /\ upload.shareLink = ""
       /\ Len(upload.wrote) < 3
       /\ Len(upload.wrote) >= 1 => upload.filePath \in objects
       /\ Len(upload.wrote) = 1 => FilesOfUpload = {}
       /\ Len(upload.wrote) = 2 =>
            (FilesOfUpload = {upload.fileData} /\ LinksOfUpload = {})

\* an upload went through and the next one failed at its last write: its
\* object and its files row are there, no link shares the file
C30_Witness ==
  /\ upload.n = 2
  /\ upload.outcome = "failed"
  /\ upload.wrote = <<"storage", "files">>
  /\ upload.filePath \in objects
  /\ upload.fileData \in DOMAIN files
  /\ LinksOfUpload = {}
  /\ Cardinality(DOMAIN share_links) = 1

\* the share links of a file
LinksOf(links, fileId) == {t \in DOMAIN links : links[t].file_id = fileId}

\* C31: handleDeleteFile deletes a files row, and with it the file's share
\* links, only when the storage object is removed; when the object is removed
\* and the delete of the row fails, the row and its links stay as they are;
\* and a download of a link whose object is gone still commits its consume and
\* is then answered 500 at the creation of the signed URL.
C31_DeleteOrderAndOrphanedLink ==
  [][/\ \A f \in DOMAIN files :
          /\ f \notin DOMAIN files' => files[f].storage_path \notin objects'
          /\ f \in DOMAIN files' =>
               /\ files'[f] = files[f]
               /\ LinksOf(share_links', f) = LinksOf(share_links, f)
          /\ LinksOf(share_links', f) # LinksOf(share_links, f) =>
               (f \notin DOMAIN files' /\ LinksOf(share_links', f) = {})
     /\ \A r \in DOMAIN requests :
          (/\ requests[r].pc = "sign"
           /\ requests'[r].pc = "done"
           /\ requests[r].shareLink.storage_path \notin objects) =>
             /\ requests'[r].status = 500
             /\ requests'[r].urls = 0
             /\ requests'[r].consumed = 1
             /\ AttemptsBy(r, TRUE) = 1]_vars

\* the object of file 1 is gone while its row and its link are there; a
\* request for the link, received after that, committed its consume and was
\* answered 500
C31_Witness ==
  /\ 1 \in DOMAIN files
  /\ files[1].storage_path \notin objects
  /\ LinksOf(share_links, 1) = {"t1"}
  /\ share_links["t1"].current_downloads = IpLimit
  /\ \E r \in DOMAIN requests :
       /\ requests[r].token = "t1"
       /\ requests[r].consumed = 1
       /\ requests[r].status = 500
       /\ requests[r].body = MsgUrlFailed
       /\ AttemptsBy(r, TRUE) = 1

\* C32: when a handleDownload of the page ends, with the file saved or with an
\* error, the page's currentDownloads is the current_downloads the store
\* holds for the link: also when the consume was committed and no file
\* arrived, and when other clients downloaded meanwhile.
C32_PageCounterMatchesStore ==
  [][page'.finished > page.finished =>
       page'.currentDownloads = share_links'[page.token].current_downloads]_vars

==============================================================================
